---- MODULE Spec2Model ----
(***************************************************************************)
(* A model of karimkohel/m-cornea: the CorneaReader feature extractor of   *)
(* src/classes/cornea.py (readEyes, the eye-strip crop, the resize and pad *)
(* of the crop, the per-session sample files and preProcess).              *)
(*                                                                         *)
(* Conventions.                                                            *)
(*  - A point is <<x, y>>, as a row of meshPoints is.                      *)
(*  - A shape is <<height, width>>, as numpy's image.shape[:2] is.         *)
(*  - A Euclidean distance sqrt(n), n a sum of two integer squares, is the *)
(*    record [root |-> floor(sqrt(n)), rem |-> n - root^2]: the value is   *)
(*    the integer root exactly when rem = 0 (5.0 is [root 5, rem 0]).      *)
(*  - Python lists are 0-based, TLA+ sequences 1-based: LEFT_EYE[0] of the *)
(*    source is LEFT_EYE[1] here, TARGET[0] is TARGET[1].                  *)
(*  - The parent directory data/ exists (os.mkdir of the session directory *)
(*    succeeds) and holds nothing but what __saveDataArray wrote.          *)
(***************************************************************************)
EXTENDS Integers, Sequences, FiniteSets, TLC

VARIABLES
    dirExists,  \* whether data/<session> exists
    files,      \* data/<session>: file index i (the file "<i>.npz") -> sample
    log,        \* history: the samples __saveDataArray was handed, in order
    data,       \* self.data of the extractor
    call,       \* the inputs of the latest readEyes call
    ret,        \* what the latest readEyes call returned (or that it raised)
    lastFace,   \* history: landmark set and feature vector of the latest
                \* call that detected a face
    pre,        \* what preProcess returned, called in the current state
    image       \* the image inside resizeAspectRatio / paddingRestOfImage

vars == <<dirExists, files, log, data, call, ret, lastFace, pre, image>>

----------------------------------------------------------------------------
(* Class constants                                                         *)

LEFT_EYE ==
    <<362, 382, 381, 380, 374, 373, 390, 249, 263, 466, 388, 387, 386, 385, 384, 398>>

RIGHT_EYE ==
    <<133, 33, 7, 163, 144, 145, 153, 154, 155, 173, 157, 158, 159, 160, 161, 246>>

LEFT_IRIS_CENTER == 473

RIGHT_IRIS_CENTER == 468

EYESTRIP ==
    <<27, 28, 56, 190, 243, 112, 26, 22, 23, 24, 110, 25, 130, 247, 30, 29,
      257, 259, 260, 467, 359, 255, 339, 254, 253, 252, 256, 341, 463, 414, 286, 258>>

\* TARGET[1] is the target height, TARGET[2] the target width
TARGET == <<40, 130>>

\* the (width, height) preProcess resizes every stored crop to
PRE_DSIZE == <<120, 40>>

\* the length of a row of preProcess's eyesMetrics array
PRE_METRICS == 33

None == [none |-> TRUE]

----------------------------------------------------------------------------
(* Arithmetic                                                              *)

Range(s) == {s[i] : i \in DOMAIN s}

Abs(n) == IF n < 0 THEN -n ELSE n

\* Python's int() of a rational num/den, den > 0: truncation towards zero
Trunc(num, den) == IF num >= 0 THEN num \div den ELSE -((-num) \div den)

RECURSIVE ISqrtFrom(_, _)
ISqrtFrom(n, r) == IF (r + 1) * (r + 1) > n THEN r ELSE ISqrtFrom(n, r + 1)

\* np.linalg.norm of an integer 2-vector
Norm(v) ==
    LET n == v[1] * v[1] + v[2] * v[2]
        r == ISqrtFrom(n, 0)
    IN  [root |-> r, rem |-> n - r * r]

Sub(p, q) == <<p[1] - q[1], p[2] - q[2]>>

Add(p, q) == <<p[1] + q[1], p[2] + q[2]>>

----------------------------------------------------------------------------
(* The inputs of a readEyes call: the camera frame, the cursor position    *)
(* pyautogui reports, and what the face-mesh detector finds in the frame.  *)

\* A BGR camera frame. Its two halves are uniformly grey (left and right are
\* the grey levels, the same in the three channels), which is enough to tell
\* a frame from its mirror image; widths are even. ink is the set of centres
\* of the circles drawn on the frame, all drawn with grey level 0.
BrightFrame ==
    [shape |-> <<100, 160>>, channels |-> 3, left |-> 200, right |-> 90, ink |-> {}]

DarkFrame ==
    [shape |-> <<120, 200>>, channels |-> 3, left |-> 0, right |-> 0, ink |-> {}]

\* the saveDir argument: the default None, the empty string, or the name of
\* the session whose directory the model follows
Str(name) == [str |-> name]

SESSION == Str("s")

SaveDirs == { None, Str(""), SESSION }

\* Python's truth value of saveDir ("if saveDir:")
Truthy(saveDir) == saveDir # None /\ saveDir # Str("")

\* The offset of the i-th contour point of an eye from that eye's iris centre
Offset(pat, i) ==
    CASE pat = "five"  -> <<<<5, 0>>, <<3, 4>>, <<0, 5>>, <<-3, 4>>,
                            <<-5, 0>>, <<-4, -3>>, <<0, -5>>, <<4, -3>>>>[((i - 1) % 8) + 1]
      [] pat = "three" -> <<<<3, 0>>, <<0, 3>>, <<-3, 0>>, <<0, -3>>>>[((i - 1) % 4) + 1]
      [] pat = "ramp"  -> <<i, 2>>
      [] OTHER         -> <<0, 0>>

\* Eye geometries: the two iris centres and the contour pattern of each eye.
\* GeoExact: every left point 5 from the left iris centre, every right point
\* 3 from the right one, the first contour points 50 apart.
GeoExact == [lc |-> <<108, 50>>, rc |-> <<60, 50>>, lpat |-> "five", rpat |-> "three"]

\* GeoRamp: sixteen different left distances, none of them an integer
GeoRamp == [lc |-> <<88, 90>>, rc |-> <<60, 50>>, lpat |-> "ramp", rpat |-> "five"]

\* GeoPoint: every landmark of both eyes on one pixel
GeoPoint == [lc |-> <<60, 50>>, rc |-> <<60, 50>>, lpat |-> "zero", rpat |-> "zero"]

\* Bounding boxes of the eye-strip points: inside the frame and smaller than
\* the target, wider than the target, taller than the target and narrow, and
\* past the left edge of the frame (the detector reports the landmarks of a
\* face that is partly outside the frame with coordinates outside it).
StripSmall == [minX |-> 40, minY |-> 35, maxX |-> 125, maxY |-> 65]

StripWide == [minX |-> 10, minY |-> 40, maxX |-> 150, maxY |-> 70]

StripTall == [minX |-> 50, minY |-> 30, maxX |-> 66, maxY |-> 75]

StripOffEdge == [minX |-> -5, minY |-> 35, maxX |-> 70, maxY |-> 65]

\* results.multi_face_landmarks: empty, or the landmarks of one face
NoFace == [found |-> FALSE]

Face(geo, strip) == [found |-> TRUE, geo |-> geo, strip |-> strip]

\* One capture: the camera frame, what the detector finds in it, and where
\* the cursor is at that moment
Capture(frame, det, mousePos) == [frame |-> frame, det |-> det, mousePos |-> mousePos]

Captures ==
    { Capture(BrightFrame, Face(GeoExact, StripSmall), <<0, 0>>),
      Capture(DarkFrame,   Face(GeoExact, StripSmall), <<640, 360>>),
      Capture(DarkFrame,   Face(GeoRamp, StripWide), <<640, 360>>),
      Capture(BrightFrame, Face(GeoPoint, StripSmall), <<640, 360>>),
      Capture(BrightFrame, Face(GeoExact, StripTall), <<0, 0>>),
      Capture(BrightFrame, Face(GeoRamp, StripOffEdge), <<0, 0>>),
      Capture(BrightFrame, NoFace, <<0, 0>>),
      Capture(DarkFrame,   NoFace, <<640, 360>>) }

IndexOf(s, e) == CHOOSE i \in DOMAIN s : s[i] = e

UsedLandmarks ==
    Range(LEFT_EYE) \cup Range(RIGHT_EYE) \cup Range(EYESTRIP)
        \cup { LEFT_IRIS_CENTER, RIGHT_IRIS_CENTER }

\* The pixel coordinates of landmark idx of a detected face: the eye-strip
\* points lie on the corners of the strip's bounding box.
Landmark(det, idx) ==
    IF idx = LEFT_IRIS_CENTER THEN det.geo.lc
    ELSE IF idx = RIGHT_IRIS_CENTER THEN det.geo.rc
    ELSE IF idx \in Range(LEFT_EYE)
        THEN Add(det.geo.lc, Offset(det.geo.lpat, IndexOf(LEFT_EYE, idx)))
    ELSE IF idx \in Range(RIGHT_EYE)
        THEN Add(det.geo.rc, Offset(det.geo.rpat, IndexOf(RIGHT_EYE, idx)))
    ELSE LET k == IndexOf(EYESTRIP, idx) % 4
         IN  CASE k = 0 -> <<det.strip.minX, det.strip.minY>>
               [] k = 1 -> <<det.strip.maxX, det.strip.minY>>
               [] k = 2 -> <<det.strip.maxX, det.strip.maxY>>
               [] OTHER -> <<det.strip.minX, det.strip.maxY>>

\* meshPoints: the landmark array, on the indices the class reads
MeshPoints(det) == [idx \in UsedLandmarks |-> Landmark(det, idx)]

----------------------------------------------------------------------------
(* Frames                                                                  *)

\* Whether cv2.circle(frame, center, 1, (0,255,0), 3) draws the pixel (x, y):
\* the ring of radius 1, drawn 3 pixels thick, covers the disc of radius 2.5
InDisc(center, x, y) ==
    4 * ((x - center[1]) * (x - center[1]) + (y - center[2]) * (y - center[2])) <= 25

\* the grey level of the pixel in column x and row y of a frame
Pixel(frame, x, y) ==
    IF \E center \in frame.ink : InDisc(center, x, y) THEN 0
    ELSE IF 2 * x < frame.shape[2] THEN frame.left ELSE frame.right

\* Flip with the bug of transposing the frame instead of mirroring it
FlipTransposed(frame) ==
    [frame EXCEPT !.shape = << frame.shape[2], frame.shape[1] >>,
                  !.ink = { << p[2], p[1] >> : p \in frame.ink }]

\* cv2.flip(frame, 1): the mirror image about the vertical axis
Flip(frame) ==
    [frame EXCEPT !.left = frame.right, !.right = frame.left,
                  !.ink = { <<frame.shape[2] - 1 - p[1], p[2]>> : p \in frame.ink }]

\* cv2.cvtColor(frame, cv2.COLOR_BGR2GRAY): one channel, the same size
CvtGray(frame) == [frame EXCEPT !.channels = 1]

\* cv2.circle(frame, center, 1, (0,255,0), 3) on a one-channel frame draws in
\* the colour's first component, 0
Circle(frame, center) == [frame EXCEPT !.ink = frame.ink \cup { center }]

\* __visualize
Visualize(frame, meshPoints, leftCenter, rightCenter) ==
    Circle(Circle(frame, leftCenter), rightCenter)

----------------------------------------------------------------------------
(* The feature vector                                                      *)

\* np.linalg.norm(meshPoints[self.LEFT_EYE] - meshPoints[self.LEFT_IRIS_CENTER], axis=1)
LeftIrisDistances(meshPoints) ==
    [i \in 1..Len(LEFT_EYE) |->
        Norm(Sub(meshPoints[LEFT_EYE[i]], meshPoints[LEFT_IRIS_CENTER]))]

RightIrisDistances(meshPoints) ==
    [i \in 1..Len(RIGHT_EYE) |->
        Norm(Sub(meshPoints[RIGHT_EYE[i]], meshPoints[RIGHT_IRIS_CENTER]))]

MiddleEyeDistance(meshPoints) ==
    Norm(Sub(meshPoints[RIGHT_EYE[1]], meshPoints[LEFT_EYE[1]]))

\* EyesMetrics with the bug of leaving the inter-eye distance out
EyesMetricsNoMiddle(meshPoints) ==
    LeftIrisDistances(meshPoints) \o RightIrisDistances(meshPoints)

\* EyesMetrics with the bug of concatenating the right eye first
EyesMetricsRightFirst(meshPoints) ==
    RightIrisDistances(meshPoints) \o LeftIrisDistances(meshPoints)
        \o << MiddleEyeDistance(meshPoints) >>

\* eyesMetrics = np.concatenate((leftIrisDistances, rightIrisDistances, [middleEyeDistance]))
EyesMetrics(meshPoints) ==
    LeftIrisDistances(meshPoints) \o RightIrisDistances(meshPoints)
        \o << MiddleEyeDistance(meshPoints) >>

----------------------------------------------------------------------------
(* The eye-strip crop                                                      *)

Max(S) == CHOOSE m \in S : \A n \in S : n <= m

Min(S) == CHOOSE m \in S : \A n \in S : m <= n

\* A bound a of the slice a:b of an axis of length n, as Python resolves it:
\* a negative bound counts from the end, and the result is kept in 0..n
SliceBound(a, n) ==
    IF a < 0 THEN (IF a + n < 0 THEN 0 ELSE a + n)
    ELSE (IF a > n THEN n ELSE a)

\* the number of elements of the slice a:b of an axis of length n
SliceLen(a, b, n) ==
    IF SliceBound(b, n) > SliceBound(a, n)
    THEN SliceBound(b, n) - SliceBound(a, n) ELSE 0

\* __cropEye: frame[minY:maxY, minX:maxX], a view of the frame. The crop is
\* its shape, the frame pixel its pixel (0, 0) is, and the frame it views.
CropEye(frame, meshPoints) ==
    LET eyeStripCoordinates == { meshPoints[EYESTRIP[i]] : i \in DOMAIN EYESTRIP }
        maxX == Max({ p[1] : p \in eyeStripCoordinates })
        maxY == Max({ p[2] : p \in eyeStripCoordinates })
        minX == Min({ p[1] : p \in eyeStripCoordinates })
        minY == Min({ p[2] : p \in eyeStripCoordinates })
    IN  [shape  |-> << SliceLen(minY, maxY, frame.shape[1]),
                       SliceLen(minX, maxX, frame.shape[2]) >>,
         origin |-> << SliceBound(minX, frame.shape[2]),
                       SliceBound(minY, frame.shape[1]) >>,
         of     |-> frame]

\* the grey level of the pixel in column j and row i of a crop
CropPixel(crop, j, i) == Pixel(crop.of, crop.origin[1] + j, crop.origin[2] + i)

\* two crops are the same image: the same shape and the same pixels
SameImage(a, b) ==
    /\ a.shape = b.shape
    /\ \A i \in 0..(a.shape[1] - 1), j \in 0..(a.shape[2] - 1) :
          CropPixel(a, j, i) = CropPixel(b, j, i)

----------------------------------------------------------------------------
(* resizeAspectRatio and paddingRestOfImage                                *)

\* what an OpenCV call raises
CvError == [error |-> "cv2.error"]

IsError(x) == "error" \in DOMAIN x

IsEmpty(shape) == shape[1] <= 0 \/ shape[2] <= 0

\* HeightPercSmaller with the bug of choosing the larger percentage
HeightPercLarger(shape) ==
    (TARGET[1] - shape[1]) * TARGET[2] > (TARGET[2] - shape[2]) * TARGET[1]

\* Whether heightPerc < widthPerc, where
\*   heightPerc = (TARGET[0] - h) * 100 / TARGET[0]
\*   widthPerc  = (TARGET[1] - w) * 100 / TARGET[1]
\* compared exactly, by cross-multiplication (both denominators are positive).
\* The float64 arithmetic of the source agrees with the exact one for every
\* h in 0..699 and w in 0..1299.
HeightPercSmaller(shape) ==
    (TARGET[1] - shape[1]) * TARGET[2] < (TARGET[2] - shape[2]) * TARGET[1]

\* dim = (width, height) of resizeAspectRatio:
\*   width  = image.shape[1] + int(TARGET[1] * scale_percent / 100)
\*   height = image.shape[0] + int(TARGET[0] * scale_percent / 100)
\* with scale_percent the smaller of heightPerc and widthPerc
ResizeDim(shape) ==
    IF HeightPercSmaller(shape)
    THEN << shape[2] + Trunc(TARGET[2] * (TARGET[1] - shape[1]), TARGET[1]),
            shape[1] + Trunc(TARGET[1] * (TARGET[1] - shape[1]), TARGET[1]) >>
    ELSE << shape[2] + Trunc(TARGET[2] * (TARGET[2] - shape[2]), TARGET[2]),
            shape[1] + Trunc(TARGET[1] * (TARGET[2] - shape[2]), TARGET[2]) >>

\* cv2.resize(image, dsize): raises on an empty source and on a dsize that is
\* not positive; the result has dsize's height and width and is made of the
\* source's pixels
CvResize(img, dsize) ==
    IF IsEmpty(img.shape) \/ dsize[1] <= 0 \/ dsize[2] <= 0
    THEN CvError
    ELSE [shape |-> << dsize[2], dsize[1] >>, from |-> img]

\* the bottom and right padding paddingRestOfImage computes
Padding(shape) ==
    [padding_width |-> TARGET[2] - shape[2], padding_height |-> TARGET[1] - shape[1]]

\* paddingRestOfImage: cv2.copyMakeBorder raises on a negative border
PaddingRestOfImage(img) ==
    LET pad == Padding(img.shape)
    IN  IF pad.padding_width < 0 \/ pad.padding_height < 0
        THEN CvError
        ELSE [shape |-> << img.shape[1] + pad.padding_height,
                           img.shape[2] + pad.padding_width >>,
              from  |-> img.from]

ResizeAspectRatio(img) ==
    LET resized == CvResize(img, ResizeDim(img.shape))
    IN  IF IsError(resized) THEN resized ELSE PaddingRestOfImage(resized)

----------------------------------------------------------------------------
(* The session directory                                                   *)

\* SaveIndex with the bug of counting from one in an existing directory
SaveIndexFromOne(exists, fs) == IF exists THEN Cardinality(DOMAIN fs) + 1 ELSE 0

\* i of __saveDataArray: the number of files of the directory, 0 without one
SaveIndex(exists, fs) == IF exists THEN Cardinality(DOMAIN fs) ELSE 0

\* SaveDataArray with the bug of storing the resized and padded crop
SaveDataArrayResized(eyesMetrics, croppedFrame, mousePos, exists, fs) ==
    LET i == IF exists THEN Cardinality(DOMAIN fs) ELSE 0
        resized == ResizeAspectRatio(croppedFrame)
        sample == [eyesMetrics |-> eyesMetrics,
                   croppedFrame |-> IF IsError(resized) THEN croppedFrame ELSE resized,
                   mousePos |-> mousePos]
    IN  [n \in DOMAIN fs \cup {i} |-> IF n = i THEN sample ELSE fs[n]]

\* np.savez(f"data/{saveDir}/{i}", ...): the directory after the write
SaveDataArray(eyesMetrics, croppedFrame, mousePos, exists, fs) ==
    LET i == SaveIndex(exists, fs)
        sample == [eyesMetrics |-> eyesMetrics, croppedFrame |-> croppedFrame,
                   mousePos |-> mousePos]
    IN  [n \in DOMAIN fs \cup {i} |-> IF n = i THEN sample ELSE fs[n]]

NoFiles == [n \in {} |-> None]

\* the orders os.listdir may list the files of the directory in
Listings(fs) ==
    { o \in [1..Cardinality(DOMAIN fs) -> DOMAIN fs] :
        \A n \in DOMAIN fs : \E i \in DOMAIN o : o[i] = n }

\* preProcess, the directory listed in the order `listing`
PreProcess(exists, fs, listing) ==
    IF ~exists THEN [error |-> "FileNotFoundError"]
    ELSE IF \E n \in DOMAIN fs : Len(fs[n].eyesMetrics) # PRE_METRICS
        THEN [error |-> "ValueError"]
    ELSE IF \E n \in DOMAIN fs :
              IsError(CvResize(fs[n].croppedFrame, PRE_DSIZE))
        THEN CvError
    ELSE [eyesMetrics |-> [i \in DOMAIN listing |-> fs[listing[i]].eyesMetrics],
          frames      |-> [i \in DOMAIN listing |->
                              CvResize(fs[listing[i]].croppedFrame, PRE_DSIZE)],
          mousePos    |-> [i \in DOMAIN listing |-> fs[listing[i]].mousePos]]

----------------------------------------------------------------------------
(* The extractor and one session directory                                 *)

\* the most sample files the model lets the session directory hold
MaxSamples == 2

Init ==
    /\ dirExists = FALSE
    /\ files = NoFiles
    /\ log = << >>
    /\ data = None
    /\ call = None
    /\ ret = [status |-> "init", data |-> None, frame |-> None]
    /\ lastFace = None
    /\ pre = None
    /\ image = None

\* The part of readEyes that reads nothing but its frame and what the
\* detector found in it: the mirrored grey frame and, with a face, the
\* annotated frame, the crop, the feature vector and the resized crop
Process(frame, det) ==
    LET gray         == CvtGray(Flip(frame))
        meshPoints   == MeshPoints(det)
        annotated    == Visualize(gray, meshPoints, meshPoints[LEFT_IRIS_CENTER],
                                  meshPoints[RIGHT_IRIS_CENTER])
        croppedFrame == CropEye(annotated, meshPoints)
    IN  IF ~det.found
        THEN [gray |-> gray]
        ELSE [gray |-> gray, frame |-> annotated, croppedFrame |-> croppedFrame,
              eyesMetrics |-> EyesMetrics(meshPoints),
              resized |-> ResizeAspectRatio(croppedFrame)]

\* Process on the captures of the model, computed once
Processed == { << c.frame, c.det, Process(c.frame, c.det) >> : c \in Captures }

\* Outcome with the bug of smoothing the feature vector with that of the
\* previous detection
OutcomeSmoothed(frame, det) ==
    LET out == (CHOOSE e \in Processed : e[1] = frame /\ e[2] = det)[3]
    IN  IF det.found /\ lastFace # None
        THEN [out EXCEPT !.eyesMetrics =
                 [i \in DOMAIN out.eyesMetrics |->
                     [root |-> (out.eyesMetrics[i].root + lastFace.eyesMetrics[i].root) \div 2,
                      rem  |-> out.eyesMetrics[i].rem]]]
        ELSE out

Outcome(frame, det) == (CHOOSE e \in Processed : e[1] = frame /\ e[2] = det)[3]

\* readEyes(frame, saveDir), with mousePos what pyautogui.position() returns
\* and det what self.faceMesh.process finds in the mirrored frame
ReadEyes(frame, det, mousePos, saveDir) ==
    LET out   == Outcome(frame, det)
        saves == det.found /\ Truthy(saveDir)
    IN  /\ saves => Cardinality(DOMAIN files) < MaxSamples
        /\ call' = [frame |-> frame, det |-> det, mousePos |-> mousePos,
                    saveDir |-> saveDir]
        /\ IF saves
           THEN /\ files' = SaveDataArray(out.eyesMetrics, out.croppedFrame, mousePos,
                                          dirExists, files)
                /\ dirExists' = TRUE
                /\ log' = Append(log, [eyesMetrics |-> out.eyesMetrics,
                                       croppedFrame |-> out.croppedFrame,
                                       mousePos |-> mousePos])
           ELSE UNCHANGED <<files, dirExists, log>>
        /\ ret' = IF ~det.found
                  THEN [status |-> "none", data |-> None, frame |-> out.gray]
                  ELSE IF IsError(out.resized)
                  THEN [status |-> "raised", data |-> None, frame |-> None]
                  ELSE [status |-> "face",
                        data |-> [eyesMetrics |-> out.eyesMetrics,
                                  croppedFrame |-> out.resized],
                        frame |-> out.frame]
        /\ lastFace' = IF det.found
                       THEN [det |-> det, eyesMetrics |-> out.eyesMetrics]
                       ELSE lastFace
        /\ pre' = None
        /\ UNCHANGED <<data, image>>

\* CorneaReader.preProcess(session), called in the current state
PreProcessCall(listing) ==
    /\ pre' = PreProcess(dirExists, files, listing)
    /\ UNCHANGED <<dirExists, files, log, data, call, ret, lastFace, image>>

Next ==
    \/ \E c \in Captures, saveDir \in SaveDirs :
          ReadEyes(c.frame, c.det, c.mousePos, saveDir)
    \/ \E listing \in Listings(files) : PreProcessCall(listing)

Spec == Init /\ [][Next]_vars

----------------------------------------------------------------------------
(* resizeAspectRatio on its own: every crop shape within the bounds, taken *)
(* through the resize and then the padding                                 *)

\* the largest crop height and width the resize is run on
MaxCropH == 90

MaxCropW == 280

InitResize ==
    /\ dirExists = FALSE
    /\ files = NoFiles
    /\ log = << >>
    /\ data = None
    /\ call = None
    /\ ret = [status |-> "init", data |-> None, frame |-> None]
    /\ lastFace = None
    /\ pre = None
    /\ image \in { [stage |-> "crop", img |-> [shape |-> << h, w >>]] :
                     h \in 0..MaxCropH, w \in 0..MaxCropW }

\* image = cv2.resize(image, dim, interpolation = cv2.INTER_AREA)
ResizeStep ==
    /\ image.stage = "crop"
    /\ LET resized == CvResize(image.img, ResizeDim(image.img.shape))
       IN  image' = IF IsError(resized)
                    THEN [stage |-> "raised", by |-> "resize", img |-> image.img]
                    ELSE [stage |-> "resized", img |-> resized]
    /\ UNCHANGED <<dirExists, files, log, data, call, ret, lastFace, pre>>

\* image = self.paddingRestOfImage(image)
PadStep ==
    /\ image.stage = "resized"
    /\ LET padded == PaddingRestOfImage(image.img)
       IN  image' = IF IsError(padded)
                    THEN [stage |-> "raised", by |-> "pad", img |-> image.img]
                    ELSE [stage |-> "padded", img |-> padded]
    /\ UNCHANGED <<dirExists, files, log, data, call, ret, lastFace, pre>>

NextResize == ResizeStep \/ PadStep

SpecResize == InitResize /\ [][NextResize]_vars

----------------------------------------------------------------------------
(* Properties                                                              *)

\* the latest readEyes call: whether there was one, whether it found a face,
\* whether it was to write a sample
Called == ret.status # "init"

FaceCall == Called /\ call.det.found

SavingCall == FaceCall /\ Truthy(call.saveDir)

\* the sample file the latest saving call wrote: the one with the highest index
LastFile == files[Cardinality(DOMAIN files) - 1]

\* the squared distance of two points
SqDist(p, q) == (p[1] - q[1]) * (p[1] - q[1]) + (p[2] - q[2]) * (p[2] - q[2])

\* d is the Euclidean distance of p and q
IsDistance(d, p, q) ==
    /\ d.root >= 0
    /\ d.rem >= 0
    /\ d.rem <= 2 * d.root
    /\ d.root * d.root + d.rem = SqDist(p, q)

\* the distance that is exactly the integer n
Exact(n) == [root |-> n, rem |-> 0]

\* every stored crop has at least one row and one column
CropsNonEmpty == \A n \in DOMAIN files : ~IsEmpty(files[n].croppedFrame.shape)

\* preProcess returned three arrays of first dimension n, the images 40 x 120
PreReturned(n) ==
    /\ ~IsError(pre)
    /\ Len(pre.eyesMetrics) = n
    /\ Len(pre.frames) = n
    /\ Len(pre.mousePos) = n
    /\ \A i \in 1..n : Len(pre.eyesMetrics[i]) = 33 /\ pre.frames[i].shape = << 40, 120 >>

\* The files are numbered 0..N-1, N the number of calls that found a face and
\* were given the session name, and each holds the sample its call wrote
FilesNumbered ==
    /\ DOMAIN files = 0..(Len(log) - 1)
    /\ \A i \in 1..Len(log) : files[i - 1] = log[i]
    /\ dirExists = (Len(log) > 0)

\* C1, as stated: after any calls of which N found a face, the session
\* directory holds exactly the files 0..N-1, none overwritten, and preProcess
\* returns three arrays of first dimension N.
C1_Original ==
    /\ FilesNumbered
    /\ pre # None => PreReturned(Len(log))

\* C1, amended: the session directory holds exactly the files 0..N-1, none
\* overwritten; preProcess returns three arrays of first dimension N when
\* N >= 1 and every stored crop has at least one row and one column, and
\* raises otherwise (no directory for N = 0, cv2.resize on an empty crop).
C1_SamplesNumberedAndLoaded ==
    /\ FilesNumbered
    /\ pre # None =>
          IF Len(log) >= 1 /\ CropsNonEmpty
          THEN PreReturned(Len(log))
          ELSE IsError(pre)

C1_Witness ==
    /\ Len(log) = 2
    /\ pre # None
    /\ PreReturned(2)
    /\ files[0] # files[1]

\* C2, as stated: whenever readEyes detects a face, it returns a cropped
\* image of height 40 and width 120, whatever the size of the eye-strip crop.
C2_Original ==
    FaceCall =>
        /\ ret.status = "face"
        /\ ret.data.croppedFrame.shape = << 40, 120 >>

\* C3: a feature vector readEyes returns has exactly 33 elements and its
\* last element, the inter-eye distance, is not negative.
C3_FeatureVectorLength ==
    /\ ret.status = "face" =>
          /\ Len(ret.data.eyesMetrics) = 33
          /\ ret.data.eyesMetrics[33].root >= 0
          /\ ret.data.eyesMetrics[33].rem >= 0
    /\ lastFace # None => Len(lastFace.eyesMetrics) = 33

C3_Witness ==
    /\ ret.status = "face"
    /\ call.det.geo = GeoPoint
    /\ ret.data.eyesMetrics[33] = Exact(0)

\* C4: a call in whose frame no face is found raises nothing and returns None
\* with a processed frame of the height and width of the input frame (which
\* are those of its mirror image).
C4_NoFaceReturnsNone ==
    (Called /\ ~call.det.found) =>
        /\ ret.status = "none"
        /\ ret.data = None
        /\ ret.frame.shape = call.frame.shape

C4_Witness ==
    /\ ret.status = "none"
    /\ call.frame = DarkFrame
    /\ ret.frame.shape = << 120, 200 >>

\* C5: the feature vector is the 16 distances of the LEFT_EYE points from the
\* left iris centre, then the 16 distances of the RIGHT_EYE points from the
\* right iris centre, then the distance of the first RIGHT_EYE and the first
\* LEFT_EYE point, in this order; left points all 5 from their centre, right
\* points all 3 from theirs and first points 50 apart give sixteen 5.0,
\* sixteen 3.0 and one 50.0.
C5_FeatureOrder ==
    ret.status = "face" =>
        LET mp == MeshPoints(call.det)
            m  == ret.data.eyesMetrics
        IN  /\ Len(m) = 33
            /\ \A i \in 1..16 :
                  /\ IsDistance(m[i], mp[LEFT_EYE[i]], mp[LEFT_IRIS_CENTER])
                  /\ IsDistance(m[16 + i], mp[RIGHT_EYE[i]], mp[RIGHT_IRIS_CENTER])
            /\ IsDistance(m[33], mp[RIGHT_EYE[1]], mp[LEFT_EYE[1]])
            /\ ( /\ \A i \in 1..16 :
                       /\ SqDist(mp[LEFT_EYE[i]], mp[LEFT_IRIS_CENTER]) = 25
                       /\ SqDist(mp[RIGHT_EYE[i]], mp[RIGHT_IRIS_CENTER]) = 9
                 /\ SqDist(mp[RIGHT_EYE[1]], mp[LEFT_EYE[1]]) = 2500 )
               => m = [i \in 1..33 |-> IF i <= 16 THEN Exact(5)
                                       ELSE IF i <= 32 THEN Exact(3) ELSE Exact(50)]

C5_Witness ==
    /\ ret.status = "face"
    /\ call.det.geo = GeoExact
    /\ ret.data.eyesMetrics[1] = Exact(5)
    /\ ret.data.eyesMetrics[17] = Exact(3)
    /\ ret.data.eyesMetrics[33] = Exact(50)

C7_SavedBeforeResize ==
    SavingCall =>
        LET strip == call.det.strip
        IN  /\ LastFile.croppedFrame.shape =
                  << SliceLen(strip.minY, strip.maxY, call.frame.shape[1]),
                     SliceLen(strip.minX, strip.maxX, call.frame.shape[2]) >>
            /\ LastFile.mousePos = call.mousePos
            /\ ret.status = "face" =>
                  /\ ret.data.eyesMetrics = LastFile.eyesMetrics
                  /\ ret.data.croppedFrame = ResizeAspectRatio(LastFile.croppedFrame)
                  /\ ret.data.croppedFrame.shape = << TARGET[1], TARGET[2] >>

C7_Witness ==
    /\ SavingCall
    /\ ret.status = "face"
    /\ LastFile.croppedFrame.shape = << 30, 85 >>
    /\ ret.data.croppedFrame.shape # LastFile.croppedFrame.shape

\* C8, as stated: the resize keeps the aspect ratio of the crop: the resized
\* height h' and width w' of a crop of height h and width w satisfy
\* h'/w' = h/w up to one pixel of truncation on each axis, which is
\* |h'w - hw'| <= h + w.
C8_Original ==
    image.stage = "resized" =>
        LET h  == image.img.from.shape[1]
            w  == image.img.from.shape[2]
            hr == image.img.shape[1]
            wr == image.img.shape[2]
        IN  Abs(hr * w - h * wr) <= h + w

\* C9: the dimensions the resize step computes never exceed the target
\* height and width, so the padding is never negative and paddingRestOfImage
\* never fails.
C9_ResizeWithinTarget ==
    /\ image.stage = "crop" =>
          /\ ResizeDim(image.img.shape)[1] <= TARGET[2]
          /\ ResizeDim(image.img.shape)[2] <= TARGET[1]
    /\ image.stage = "resized" =>
          /\ image.img.shape[1] <= TARGET[1]
          /\ image.img.shape[2] <= TARGET[2]
          /\ Padding(image.img.shape).padding_width >= 0
          /\ Padding(image.img.shape).padding_height >= 0
    /\ image.stage = "raised" => image.by = "resize"
    /\ image.stage = "padded" => image.img.shape = << TARGET[1], TARGET[2] >>

\* a crop larger than the target on both axes, resized and padded
C9_Witness ==
    /\ image.stage = "padded"
    /\ image.img.from.shape = << 50, 200 >>

\* C10, as stated: the circles drawn at the iris centres do not change the
\* data of the sample: the feature vector and the pixels of the crop, stored
\* and returned, are those of the frame without the circles.
C10_Original ==
    FaceCall =>
        LET mp    == MeshPoints(call.det)
            clean == CropEye(CvtGray(Flip(call.frame)), mp)
        IN  /\ Truthy(call.saveDir) =>
                  /\ LastFile.eyesMetrics = EyesMetrics(mp)
                  /\ SameImage(LastFile.croppedFrame, clean)
            /\ ret.status = "face" =>
                  /\ ret.data.eyesMetrics = EyesMetrics(mp)
                  /\ SameImage(ret.data.croppedFrame.from, clean)

====
